---- MODULE Spec2Model ----
(***************************************************************************)
(* Model of InputLoop (src/index.ts): an interactive prompt helper.        *)
(*                                                                         *)
(* The loop object holds the flag `done`, a History of the last prompt and *)
(* a shared 1024 byte stdin buffer.  choose / question / repeat / read are *)
(* issued by a caller at any time (nothing in the class makes the caller   *)
(* await), each one runs synchronously up to its first await, and a read   *)
(* of standard input completes later with a chunk of bytes or with end of  *)
(* input.                                                                  *)
(*                                                                         *)
(* JavaScript values are tagged records, strings are sequences of one      *)
(* character strings, stdin chunks are sequences of byte codes.            *)
(***************************************************************************)
EXTENDS Integers, Sequences, FiniteSets, TLC

\* ------------------------------------------------------------------ bounds
MaxOptions == 2
MaxChunk == 3
MaxPending == 2

\* --------------------------------------------------------------- JS values
Undef == [t |-> "undefined"]
Null == [t |-> "null"]
Bool(b) == [t |-> "boolean", b |-> b]
Num(n) == [t |-> "number", n |-> n]
Str(s) == [t |-> "string", s |-> s]
Arr(a) == [t |-> "array", a |-> a]
Obj(o) == [t |-> "object", o |-> o]

\* JavaScript truthiness, as used by `if (x)`, `x && y`, `x || y`, `x ? y : z`
Truthy(v) ==
    CASE v.t = "undefined" -> FALSE
      [] v.t = "null" -> FALSE
      [] v.t = "boolean" -> v.b
      [] v.t = "number" -> v.n # 0
      [] v.t = "string" -> v.s # <<>>
      [] OTHER -> TRUE

\* a || b
Or(a, b) == IF Truthy(a) THEN a ELSE b

\* a ?? b
Nullish(a, b) == IF a.t \in {"undefined", "null"} THEN b ELSE a

\* Destructuring `let { f } = preferences`: a property of an object, and
\* undefined for a missing property or a primitive such as `true`.
Get(p, f) == IF p.t = "object" /\ f \in DOMAIN p.o THEN p.o[f] ELSE Undef

\* ------------------------------------------------------------------ String
DigitChar(d) ==
    CASE d = 0 -> "0" [] d = 1 -> "1" [] d = 2 -> "2" [] d = 3 -> "3"
      [] d = 4 -> "4" [] d = 5 -> "5" [] d = 6 -> "6" [] d = 7 -> "7"
      [] d = 8 -> "8" [] d = 9 -> "9"

RECURSIVE Digits(_)
Digits(n) == IF n < 10 THEN <<DigitChar(n)>>
             ELSE Digits(n \div 10) \o <<DigitChar(n % 10)>>

\* String(n) for an integer n
String(n) == IF n < 0 THEN <<"-">> \o Digits(-n) ELSE Digits(n)

\* ' '.repeat(n)
RECURSIVE StringRepeat(_, _)
StringRepeat(c, n) == IF n <= 0 THEN <<>> ELSE <<c>> \o StringRepeat(c, n - 1)

\* s.replace(c, ''): a string pattern replaces the first occurrence only
RECURSIVE RemoveFirst(_, _)
RemoveFirst(s, c) ==
    IF s = <<>> THEN <<>>
    ELSE IF Head(s) = c THEN Tail(s)
    ELSE <<Head(s)>> \o RemoveFirst(Tail(s), c)

\* new TextDecoder().decode(bytes), on the ASCII bytes stdin delivers here
CharOfByte(b) ==
    CASE b = 10 -> "\n"
      [] b = 13 -> "\r"
      [] b >= 48 /\ b <= 57 -> DigitChar(b - 48)
      [] OTHER -> "?"

Decode(bytes) == [i \in 1..Len(bytes) |-> CharOfByte(bytes[i])]

\* ------------------------------------------------------- InputLoop helpers
\* private coerceChoice(value: string | number): string
coerceChoice(value) == IF value.t = "number" THEN String(value.n) ELSE value.s

\* private cleanInput(value?: string): string
\*   value?.replace('\n', '').replace('\r', '') ?? ''
cleanInput(value) ==
    IF value.t = "undefined" THEN <<>>
    ELSE RemoveFirst(RemoveFirst(value.s, "\n"), "\r")

\* ----------------------------------------------------------------- History
\* History (history.ts) keeps one record, overwritten by save and returned by
\* retrieve; the ACTIONS members (types.ts) are two distinct truthy values.
ACTIONS_CHOOSE == Str(<<"c", "h", "o", "o", "s", "e">>)
ACTIONS_QUESTION == Str(<<"q", "u", "e", "s", "t", "i", "o", "n">>)

\* what retrieve() returns before anything was saved
EmptyHistory ==
    [action |-> Undef, argument |-> Undef,
     lastOptionClose |-> Undef, includeNewline |-> Undef]

\* history.save(argument, action, lastOptionClose?, includeNewline?)
save(argument, action, lastOptionClose, includeNewline) ==
    [action |-> action, argument |-> argument,
     lastOptionClose |-> lastOptionClose, includeNewline |-> includeNewline]

\* ----------------------------------------------------------------- Printer
\* Printer (printer.ts) writes to standard output; the model keeps the calls
\* InputLoop makes on it, in order.
OutNewline == [m |-> "newline"]
OutDivider(length, char) == [m |-> "divider", length |-> length, char |-> char]
OutPrint(text, appendNewline) ==
    [m |-> "print", text |-> text, appendNewline |-> appendNewline]

\* -------------------------------------------------------- choose: rendering
indexStyleLeft(p) ==
    IF Truthy(Get(p, "indexStyle")) THEN Get(p, "indexStyle").a[1] ELSE <<"[">>

indexStyleRight(p) ==
    IF Truthy(Get(p, "indexStyle")) THEN Get(p, "indexStyle").a[2] ELSE <<"]">>

separator(p) ==
    IF Truthy(Get(p, "inlineSeparator"))
    THEN <<" ">> \o Get(p, "inlineSeparator").s \o <<" ">>
    ELSE StringRepeat(" ", Or(Get(p, "inlineSpacing"), Num(2)).n)

OptionLine(p, option, index) ==
    IF Truthy(Get(p, "displayInline"))
    THEN OutPrint(indexStyleLeft(p) \o String(index) \o indexStyleRight(p)
                    \o <<" ">> \o option \o separator(p), Undef)
    ELSE OutPrint(indexStyleLeft(p) \o String(index) \o indexStyleRight(p)
                    \o <<" ">> \o option, Bool(TRUE))

ChooseDivider(p) ==
    OutDivider(Or(Get(p, "dividerLength"), Undef), Or(Get(p, "dividerChar"), Undef))

\* everything choose writes before it obtains the answer
ChooseRender(options, p) ==
    <<OutNewline>>
    \o (IF Truthy(Get(p, "dividerTop")) THEN <<ChooseDivider(p)>> ELSE <<>>)
    \o (IF Truthy(Get(p, "dividerPadding")) THEN <<OutNewline>> ELSE <<>>)
    \o [i \in 1..Len(options) |-> OptionLine(p, options[i], i - 1)]
    \o (IF Truthy(Get(p, "dividerBottom"))
        THEN <<OutNewline>>
             \o (IF Truthy(Get(p, "dividerPadding")) THEN <<OutNewline>> ELSE <<>>)
             \o <<ChooseDivider(p)>>
        ELSE <<>>)

\* --------------------------------------------------- choose: after the answer
\* a slip: compares the answer with options.length, not options.length - 1
ShouldClose_Length(lastOptionClose, options, result) ==
    Truthy(lastOptionClose) /\ result = String(Len(options))

\* lastOptionClose && result === String(options.length - 1)
ShouldClose(lastOptionClose, options, result) ==
    Truthy(lastOptionClose) /\ result = String(Len(options) - 1)

\* close(): this.done = true
close(d) == TRUE

\* a slip: this.done = lastOptionClose && result === String(options.length - 1)
ChooseDone_Assign(d, lastOptionClose, options, result) ==
    ShouldClose(lastOptionClose, options, result)

\* the value of this.done when choose returns
ChooseDone(d, lastOptionClose, options, result) ==
    IF ShouldClose(lastOptionClose, options, result) THEN close(d) ELSE d

\* options.map((_option, index) => result === String(index))
ChooseResult(options, result) ==
    [i \in 1..Len(options) |-> result = String(i - 1)]

\* ------------------------------------------------------------------ inputs
\* the option list of n entries
OptionList(n) == [i \in 1..n |-> <<"o">> \o String(i - 1)]

OptionLists == { OptionList(n) : n \in 1..MaxOptions }

Questions == { <<"Q">>, <<"R">> }

\* a supplied answer: a number or a string
SuppliedValues ==
    { Num(n) : n \in 0..MaxOptions }
    \cup { Str(String(i)) : i \in 0..(MaxOptions - 1) }
    \cup { Str(<<>>), Str(<<"0", "\n">>), Str(<<"\n", "0">>) }

Values == { Undef } \cup SuppliedValues

Flags == { Undef, Bool(TRUE), Bool(FALSE) }

\* preference objects that only change the rendering
RenderPrefs ==
    { [displayInline |-> Bool(TRUE), inlineSpacing |-> Num(3),
       indexStyle |-> Arr(<< <<"(">>, <<")">> >>)],
      [displayInline |-> Bool(TRUE), inlineSeparator |-> Str(<<"|">>)],
      [dividerTop |-> Bool(TRUE), dividerBottom |-> Bool(TRUE),
       dividerPadding |-> Bool(TRUE), dividerChar |-> Str(<<"=">>),
       dividerLength |-> Num(3)] }

\* preference objects that set lastOptionClose and / or choice
AnswerPrefs ==
    { <<>> }
    \cup { [lastOptionClose |-> l] : l \in Flags }
    \cup { [choice |-> c] : c \in SuppliedValues }
    \cup { [lastOptionClose |-> l, choice |-> c] : l \in Flags, c \in SuppliedValues }

\* what a caller passes as the second argument of choose: nothing, an
\* object, or (as the README does) the boolean true
PrefArgs ==
    { Undef, Bool(TRUE) }
    \cup { Obj(o) : o \in AnswerPrefs \cup RenderPrefs }

\* what Deno.stdin.read(buf) delivers: n bytes, 0 < n, or null at end of input
StdinBytes == { 10, 13, 49 }

\* every sequence of at most n of the bytes
RECURSIVE ByteStrings(_, _)
ByteStrings(bytes, n) ==
    IF n = 0 THEN { <<>> }
    ELSE LET shorter == ByteStrings(bytes, n - 1)
         IN  shorter \cup { Append(b, c) : b \in shorter, c \in bytes }

Chunks == ByteStrings(StdinBytes, MaxChunk) \ { <<>> }

\* the smaller inputs of a caller that does not await its calls
AsyncOptionLists == { OptionList(MaxOptions) }
AsyncPrefArgs ==
    { Undef,
      Obj([lastOptionClose |-> Bool(TRUE)]),
      Obj([lastOptionClose |-> Bool(TRUE), choice |-> Num(MaxOptions - 1)]) }
AsyncQuestions == { <<"Q">> }
AsyncFlags == { Undef }
AsyncValues == { Undef, Str(<<"x">>) }
\* LF and the digit of the last index, delivered one byte per read.  Reads
\* that are outstanding together write into the one buffer, so a read of n
\* bytes may decode any n of the bytes delivered: every one byte chunk is in
\* the set.
AsyncBytes == { 10, 48 + MaxOptions - 1 }
AsyncChunks == { <<b>> : b \in AsyncBytes }

\* ------------------------------------------------------------------- state
VARIABLES
    done,       \* InputLoop.done
    history,    \* the record History holds
    pending,    \* calls suspended in `await Deno.stdin.read(this.buf)`, oldest first
    resuming,   \* choose calls whose read() has settled and that have not yet
                \* resumed after `await this.read()`, in the order they will
                \* resume (the microtask queue)
    out,        \* the Printer calls made by the most recent step
    ret         \* the most recent call or settlement, as its caller sees it

vars == <<done, history, pending, resuming, out, ret>>

NoRet ==
    [api |-> "new", fn |-> "none", arg |-> <<>>, call |-> <<>>,
     settled |-> "none", value |-> Undef, reads |-> 0, n |-> Undef,
     chunk |-> <<>>, doneBefore |-> FALSE]

Init ==
    /\ done = FALSE
    /\ history = EmptyHistory
    /\ pending = <<>>
    /\ resuming = <<>>
    /\ out = <<>>
    /\ ret = NoRet

\* ------------------------------------------------------------------- read
\* read(): the promise executor calls Deno.stdin.read(this.buf) at once and
\* suspends; the call (api, fn, arg, call) resumes when the bytes arrive.
\* At most MaxPending calls are in flight.
StartRead(api, fn, arg, call) ==
    /\ Len(pending) + Len(resuming) < MaxPending
    /\ pending' = Append(pending,
            [api |-> api, fn |-> fn, arg |-> arg, call |-> call, reads |-> 1])
    /\ ret' = [api |-> api, fn |-> fn, arg |-> arg, call |-> call,
               settled |-> "pending", value |-> Undef, reads |-> 1,
               n |-> Undef, chunk |-> <<>>, doneBefore |-> done]

\* a slip: no test of n, so that end of input resolves to the empty string
ReadOutcome_NoReject(n, chunk) ==
    [settled |-> "resolved",
     value |-> Str(cleanInput(IF Truthy(n) THEN Str(Decode(chunk)) ELSE Undef))]

\* if (n) resolve(cleanInput(decode(buf.subarray(0, n)))) else reject()
ReadOutcome(n, chunk) ==
    IF Truthy(n)
    THEN [settled |-> "resolved", value |-> Str(cleanInput(Str(Decode(chunk))))]
    ELSE [settled |-> "rejected", value |-> Undef]

Remove(seq, i) == SubSeq(seq, 1, i - 1) \o SubSeq(seq, i + 1, Len(seq))

\* public read()
Read ==
    /\ StartRead("read", "read", <<>>, <<>>)
    /\ out' = <<>>
    /\ UNCHANGED <<done, history, resuming>>

\* a call that settles without suspending
Settled(api, fn, arg, call, settled, value) ==
    [api |-> api, fn |-> fn, arg |-> arg, call |-> call, settled |-> settled,
     value |-> value, reads |-> 0, n |-> Undef, chunk |-> <<>>,
     doneBefore |-> done]

\* ------------------------------------------------------------------ choose
\* the record choose saves: history.save(options, ACTIONS.CHOOSE, lastOptionClose ?? false)
ChooseRecord(options, lastOptionClose) ==
    save(Arr(options), ACTIONS_CHOOSE, Nullish(lastOptionClose, Bool(FALSE)), Undef)

\* choose(options, preferences = {}), called as `api` (directly or by repeat)
Choose(api, arg, options, preferences) ==
    LET p == IF preferences = Undef THEN Obj(<<>>) ELSE preferences
        choice == Get(p, "choice")
        lastOptionClose == Get(p, "lastOptionClose")
        call == [options |-> options, lastOptionClose |-> lastOptionClose]
        result == cleanInput(Str(coerceChoice(choice)))
    IN  /\ out' = ChooseRender(options, p)
        /\ UNCHANGED resuming
        /\ IF choice # Undef
           THEN /\ history' = ChooseRecord(options, lastOptionClose)
                /\ done' = ChooseDone(done, lastOptionClose, options, result)
                /\ ret' = Settled(api, "choose", arg, call, "resolved",
                                  Arr(ChooseResult(options, result)))
                /\ UNCHANGED pending
           ELSE /\ StartRead(api, "choose", arg, call)
                /\ UNCHANGED <<done, history>>

ChooseCall(optionLists, prefArgs) ==
    \E options \in optionLists, preferences \in prefArgs :
        Choose("choose", [options |-> options, preferences |-> preferences],
               options, preferences)

\* ---------------------------------------------------------------- question
\* the record question saves
QuestionRecord(text, includeNewline) ==
    save(Str(text), ACTIONS_QUESTION, Undef, Nullish(includeNewline, Bool(TRUE)))

\* question(question, includeNewline?, value?), called as `api`
Question(api, arg, text, includeNewline, value) ==
    LET call == [text |-> text, includeNewline |-> includeNewline]
    IN  /\ out' = <<OutPrint(text, Nullish(includeNewline, Bool(TRUE)))>>
        /\ history' = QuestionRecord(text, includeNewline)
        /\ UNCHANGED <<done, resuming>>
        /\ IF Truthy(value)
           THEN /\ ret' = Settled(api, "question", arg, call, "resolved",
                                  Str(cleanInput(Str(coerceChoice(value)))))
                /\ UNCHANGED pending
           ELSE StartRead(api, "question", arg, call)

QuestionCall(questions, flags, values) ==
    \E text \in questions, includeNewline \in flags, value \in values :
        Question("question",
                 [text |-> text, includeNewline |-> includeNewline, value |-> value],
                 text, includeNewline, value)

\* ------------------------------------------------------------------ repeat
\* repeat(value?): replays what history.retrieve() holds
repeat(value) ==
    IF Truthy(history.action) /\ history.action = ACTIONS_CHOOSE
    THEN Choose("repeat", [value |-> value], history.argument.a,
                Obj([lastOptionClose |-> history.lastOptionClose, choice |-> value]))
    ELSE IF Truthy(history.action) /\ history.action = ACTIONS_QUESTION
    THEN Question("repeat", [value |-> value], history.argument.s,
                  history.includeNewline, value)
    ELSE /\ ret' = Settled("repeat", "none", [value |-> value], <<>>,
                           "returned", Undef)
         /\ out' = <<>>
         /\ UNCHANGED <<done, history, pending, resuming>>

RepeatCall(values) == \E value \in values : repeat(value)

\* ------------------------------------------------------------------- close
Close ==
    /\ done' = close(done)
    /\ ret' = Settled("close", "none", <<>>, <<>>, "returned", Undef)
    /\ out' = <<>>
    /\ UNCHANGED <<history, pending, resuming>>

\* ------------------------------------------------- a stdin read completes
\* Deno.stdin.read resolves for the i-th suspended call with n and the bytes
\* now in buf[0..n); read()'s executor resumes and settles read()'s promise
\* (index.ts:58-64).  With several reads outstanding on the one buffer the
\* bytes seen are whatever the reads left there, which the choice over all
\* chunks covers.  For read() and question() that promise is the caller's;
\* choose awaits it and resumes in a later microtask, after whatever the
\* caller has queued in between.
Complete(i, n, chunk) ==
    LET c == pending[i]
        o == ReadOutcome(n, chunk)
    IN  /\ pending' = Remove(pending, i)
        /\ out' = <<>>
        /\ UNCHANGED <<done, history>>
        /\ IF c.fn = "choose"
           THEN /\ resuming' = Append(resuming,
                        [api |-> c.api, fn |-> c.fn, arg |-> c.arg,
                         call |-> c.call, reads |-> c.reads,
                         n |-> n, chunk |-> chunk, read |-> o])
                /\ ret' = [api |-> c.api, fn |-> c.fn, arg |-> c.arg,
                           call |-> c.call, settled |-> "pending",
                           value |-> Undef, reads |-> c.reads,
                           n |-> n, chunk |-> chunk, doneBefore |-> done]
           ELSE /\ ret' = [api |-> c.api, fn |-> c.fn, arg |-> c.arg,
                           call |-> c.call, settled |-> o.settled,
                           value |-> o.value, reads |-> c.reads,
                           n |-> n, chunk |-> chunk, doneBefore |-> done]
                /\ UNCHANGED resuming

StdinComplete(chunks) ==
    \E i \in 1..Len(pending) :
        \/ Complete(i, Null, <<>>)
        \/ \E chunk \in chunks : Complete(i, Num(Len(chunk)), chunk)

\* choose resumes after `await this.read()` (index.ts:129): a rejected read
\* rejects choose there; otherwise it saves, closes and returns (132-143).
ChooseResume ==
    /\ resuming # <<>>
    /\ LET c == Head(resuming)
           settle(settled, value) ==
               [api |-> c.api, fn |-> c.fn, arg |-> c.arg, call |-> c.call,
                settled |-> settled, value |-> value, reads |-> c.reads,
                n |-> c.n, chunk |-> c.chunk, doneBefore |-> done]
       IN  /\ resuming' = Tail(resuming)
           /\ out' = <<>>
           /\ UNCHANGED pending
           /\ IF c.read.settled = "resolved"
              THEN /\ history' = ChooseRecord(c.call.options, c.call.lastOptionClose)
                   /\ done' = ChooseDone(done, c.call.lastOptionClose,
                                         c.call.options, c.read.value.s)
                   /\ ret' = settle("resolved",
                                Arr(ChooseResult(c.call.options, c.read.value.s)))
              ELSE /\ ret' = settle("rejected", Undef)
                   /\ UNCHANGED <<done, history>>

\* ----------------------------------------------------------- specifications
\* A caller that issues calls whenever it likes, awaited or not.
Next ==
    \/ ChooseCall(AsyncOptionLists, AsyncPrefArgs)
    \/ QuestionCall(AsyncQuestions, AsyncFlags, AsyncValues)
    \/ RepeatCall(AsyncValues)
    \/ Read
    \/ Close
    \/ StdinComplete(AsyncChunks)
    \/ ChooseResume

Spec == Init /\ [][Next]_vars

\* no call is in flight
Idle == pending = <<>> /\ resuming = <<>>

\* A caller that awaits every call before it issues the next one.
NextAwait ==
    \/ Idle /\ ChooseCall(OptionLists, PrefArgs)
    \/ Idle /\ QuestionCall(Questions, Flags, Values)
    \/ Idle /\ RepeatCall(Values)
    \/ Idle /\ Read
    \/ Idle /\ Close
    \/ StdinComplete(Chunks)
    \/ ChooseResume

SpecAwait == Init /\ [][NextAwait]_vars

\* ================================================================== claims
\* what the claims mean by stripping: every trailing CR and LF removed
RECURSIVE StripTrailing(_)
StripTrailing(s) ==
    IF s # <<>> /\ s[Len(s)] \in {"\n", "\r"}
    THEN StripTrailing(SubSeq(s, 1, Len(s) - 1))
    ELSE s

\* the string form of a supplied string or number
StringForm(v) == IF v.t = "number" THEN String(v.n) ELSE v.s

\* the last step was a direct choose(options, {..., choice: c}) with c supplied
ChoiceSupplied ==
    /\ ret.api = "choose"
    /\ ret.arg.preferences.t = "object"
    /\ "choice" \in DOMAIN ret.arg.preferences.o
    /\ ret.arg.preferences.o.choice # Undef

\* the last step settled a call that had been waiting on a stdin read
ReadSettled == ret.reads > 0 /\ ret.settled \in {"resolved", "rejected"}

\* ---------------------------------------------------------------------- C1
\* the supplied choice c is index i of the list: the number i or the string
\* form of i
MatchesIndex(c, i) == c \in {Num(i), Str(String(i))}

\* C1: choose(options, {choice: c}) with c the number i or the string form
\* of i (0 <= i < N) resolves, without any read, to a boolean sequence of
\* length N that is true at position i only; a supplied choice that matches
\* no index resolves to N times false.
CE_C1 ==
    ChoiceSupplied =>
        LET c == ret.arg.preferences.o.choice
            N == Len(ret.arg.options)
        IN  /\ ret.settled = "resolved"
            /\ ret.reads = 0
            /\ pending = <<>>
            /\ ret.value.t = "array"
            /\ Len(ret.value.a) = N
            /\ \A i \in 0..(N - 1) :
                   MatchesIndex(c, i) =>
                       \A j \in 1..N : ret.value.a[j] = (j = i + 1)
            /\ (\A i \in 0..(N - 1) : ~MatchesIndex(c, i)) =>
                   \A j \in 1..N : ret.value.a[j] = FALSE

\* ---------------------------------------------------------------------- C2
\* C2: on a loop whose done flag is false, after choose(options, {choice: i,
\* lastOptionClose}) with a supplied index i resolves, done is true exactly
\* when lastOptionClose is true and i is the last index; with lastOptionClose
\* absent or false done stays false.
Thm_C2 ==
    (ChoiceSupplied /\ ~ret.doneBefore) =>
        LET c == ret.arg.preferences.o.choice
            l == Get(ret.arg.preferences, "lastOptionClose")
            N == Len(ret.arg.options)
        IN  \A i \in 0..(N - 1) :
                c \in {Num(i), Str(String(i))} =>
                    done = (l = Bool(TRUE) /\ i = N - 1)

\* choose(['o0', 'o1'], {lastOptionClose: true, choice: 1}) closed an open loop
Wit_C2 ==
    /\ ChoiceSupplied
    /\ ~ret.doneBefore
    /\ ret.arg.preferences.o = [lastOptionClose |-> Bool(TRUE), choice |-> Num(1)]
    /\ ret.arg.options = OptionList(2)
    /\ done

\* ---------------------------------------------------------------------- C3
\* C3: choose(options, true), the README's automatic looping: when the answer
\* read is the index of the last option, done becomes true.
CE_C3 ==
    ( /\ ret.api = "choose"
      /\ ret.arg.preferences = Bool(TRUE)
      /\ ret.settled = "resolved"
      /\ StripTrailing(Decode(ret.chunk)) = String(Len(ret.arg.options) - 1) )
    => done

\* ---------------------------------------------------------------------- C4
\* C4: question(text, includeNewline, value) with any supplied value (any
\* string or number) resolves to the string form of the value and reads
\* nothing.
CE_C4 ==
    (ret.api = "question" /\ ret.arg.value # Undef) =>
        /\ ret.settled = "resolved"
        /\ ret.reads = 0
        /\ ret.value = Str(StringForm(ret.arg.value))

\* ---------------------------------------------------------------------- C5
\* C5: read() resolves to the chunk stdin returned with all its trailing CR
\* and LF removed and every other character kept in place.
CE_C5 ==
    (ReadSettled /\ ret.fn \in {"read", "question"} /\ ret.chunk # <<>>) =>
        /\ ret.settled = "resolved"
        /\ ret.value = Str(StripTrailing(Decode(ret.chunk)))

\* ---------------------------------------------------------------------- C6
\* C6: repeat(value) replays the recorded prompt with the same arguments,
\* reads nothing when a value (any string or number) is given, and performs
\* one read when none is given.
CE_C6 ==
    (ret.api = "repeat" /\ ret.fn # "none") =>
        /\ ret.fn = "choose" =>
               /\ history.action = ACTIONS_CHOOSE
               /\ Arr(ret.call.options) = history.argument
               /\ ret.call.lastOptionClose = history.lastOptionClose
        /\ ret.fn = "question" =>
               /\ history.action = ACTIONS_QUESTION
               /\ Str(ret.call.text) = history.argument
               /\ ret.call.includeNewline = history.includeNewline
        /\ ret.arg.value # Undef => (ret.reads = 0 /\ ret.settled = "resolved")
        /\ ret.arg.value = Undef => ret.reads = 1

\* ---------------------------------------------------------------------- C7
\* C7: done starts false, never goes from true back to false whatever is
\* called and however reads end, and is true after every close().
Thm_C7 ==
    /\ done = FALSE
    /\ [][done => done']_vars
    /\ [](ret.api = "close" => done)

\* close() was called on a loop that was already done
Wit_C7 == ret.api = "close" /\ ret.doneBefore /\ done

\* ---------------------------------------------------------------------- C8
\* C8: when the stdin read yields no data the waiting read, choose, question
\* or repeat call rejects after its one read attempt, returns no result,
\* starts no further read and leaves done as it was.
Thm_C8 ==
    (ReadSettled /\ ret.n = Null) =>
        /\ ret.settled = "rejected"
        /\ ret.value = Undef
        /\ ret.reads = 1
        /\ pending = <<>>
        /\ resuming = <<>>
        /\ done = ret.doneBefore

\* a repeat() that replayed a choose prompt failed at end of input
Wit_C8 ==
    /\ ret.api = "repeat"
    /\ ret.fn = "choose"
    /\ ret.n = Null
    /\ ret.settled = "rejected"

\* ---------------------------------------------------------------------- C9
\* C9: every choose or question that has ended, by a supplied value, by a
\* read or by end of input, has left its own kind and arguments as the
\* stored record.
CE_C9 ==
    /\ (ret.fn = "choose" /\ ret.settled \in {"resolved", "rejected"}) =>
           /\ history.action = ACTIONS_CHOOSE
           /\ history.argument = Arr(ret.call.options)
           /\ Truthy(history.lastOptionClose) = Truthy(ret.call.lastOptionClose)
    /\ (ret.fn = "question" /\ ret.settled \in {"resolved", "rejected"}) =>
           /\ history.action = ACTIONS_QUESTION
           /\ history.argument = Str(ret.call.text)
           /\ history.includeNewline = Nullish(ret.call.includeNewline, Bool(TRUE))

\* --------------------------------------------------------------------- C10
\* C10: at most one read of standard input is outstanding at any time.
CE_C10 == Len(pending) <= 1

====
